---- MODULE Spec2Model ----
(***************************************************************************)
(* State-machine model of the AudioRecorder component                      *)
(* (src/src/components/AudioRecorder.tsx) and of the helpers it calls.     *)
(*                                                                         *)
(* One action is one JavaScript task: the code that runs between two       *)
(* suspension points (await, timer, library callback, socket callback).    *)
(* Refs (useRef) are read live; React state read inside a callback is the  *)
(* value captured by the render whose closure created the callback.        *)
(***************************************************************************)
EXTENDS Integers, Sequences, FiniteSets, TLC

\* ---------------------------------------------------------------- bounds
MaxSessions == 2      \* startListening calls in one behaviour
MaxVoice    == 2      \* onVoiceStart events in one behaviour
MaxFrames   == 3      \* worklet frames delivered in one behaviour
MaxSends    == 3      \* 'audioDataPartial' emits in one behaviour
MaxEvents   == 1      \* 'transcription' events in one behaviour
MaxSeqId    == 1      \* largest sequenceId a 'transcription' event carries
AgeCap      == 2      \* elapsed ticks are counted up to this many
MaxResultId == 3      \* largest id recorded when results arrive in any order
MaxPreFrames == 2     \* frames in the pre-recording buffer given to the merge
MaxFrameLen == 2      \* samples in one such frame
MaxRecorded == 2      \* samples decoded from the recorded blob
SampleDen   == 10     \* samples are multiples of 1 / SampleDen
SampleOver  == 2      \* samples go up to (SampleDen + SampleOver) / SampleDen
LowSampleRate == 8000 \* sample rate of an audio context on a narrow-band device
MaxLowRateFrames == 395  \* worklet frames delivered at that rate

\* ------------------------------------------------------ program constants
BUFFER_DURATION     == 200     \* AudioRecorder.tsx:47
FrameSamples        == 4096    \* AudioRecorder.tsx:76
SampleRate          == 48000   \* AudioRecorder.tsx:350 (requested rate)
HangoverMs          == 300     \* AudioRecorder.tsx:122
DiscardThresholdMs  == 150     \* AudioRecorder.tsx:128
minSpeechDuration   == 250     \* AudioRecorder.tsx:199
HeaderBytes         == 44      \* audioMerging.ts:86
NumChannels         == 1       \* audioMerging.ts:79
BitsPerSample       == 16      \* audioMerging.ts:80
PositiveScale       == 32767   \* audioMerging.ts:114 (0x7fff)
NegativeScale       == 32768   \* audioMerging.ts:114 (0x8000)

\* The clock advances in steps of half the trailing-capture delay.
TickMs        == HangoverMs \div 2
HangoverTicks == HangoverMs \div TickMs

Sessions == 1..MaxSessions
SeqIds   == 0..MaxSeqId
NoTime   == 0 - 1     \* voiceStartTimeRef.current === null
EmptyMap == [k \in {} |-> FALSE]

VARIABLES
  \* React state (useState)
  isProcessing, isListening, isInitializing, error, transcriptions,
  \* refs (useRef)
  recorderRef, vadRef, audioContextRef, audioQueueRef, sequenceCounterRef,
  pendingTranscriptionsRef, nextExpectedSequenceRef, voiceStartTimeRef,
  isVoiceActiveRef,
  \* per-render closure values captured by a session's callbacks
  PRE_RECORDING_BUFFER, closureIsProcessing,
  \* collaborators: RecordRTC recorder state, VAD detector state
  recorderState, vadVoice,
  \* control: position of startListening, suspended onVoiceStop calls,
  \* sends on the wire, and for each session the stopRecording callback of
  \* its stopListening call ("none", "pending", or "done" once it has run
  \* and emitted 'audioComplete')
  session, startPc, tasks, sends, stopCallbacks,
  \* input budgets
  frameCount, voiceCount, eventCount,
  \* history: ids released without text, ids recorded into the pending map
  \* in arrival order, ids the remote reported failed, chunks whose send failed
  skipped, recorded, remoteFailed, failedChunks,
  \* the merge on its own: the frames and samples given to
  \* mergePreRecordingBufferWithRecordedAudio, the sample rate of the decoded
  \* buffer, the merged samples, the bytes encodeWAV wrote, and the position
  preBufferFrames, recordedSamples, audioContextGiven, bufferSampleRate,
  mergedSamples, wavBytes, mergePc,
  \* history: the pre-recording buffer as it was when onVoiceStart last fired
  voiceStartBuffer

stateVars   == <<isProcessing, isListening, isInitializing, error, transcriptions>>
refVars     == <<recorderRef, vadRef, audioContextRef, audioQueueRef,
                 sequenceCounterRef, pendingTranscriptionsRef,
                 nextExpectedSequenceRef, voiceStartTimeRef, isVoiceActiveRef>>
closureVars == <<PRE_RECORDING_BUFFER, closureIsProcessing>>
libVars     == <<recorderState, vadVoice>>
ctlVars     == <<session, startPc, tasks, sends, stopCallbacks>>
budgetVars  == <<frameCount, voiceCount, eventCount>>
histVars    == <<skipped, recorded, remoteFailed, failedChunks>>
wavVars     == <<preBufferFrames, recordedSamples, audioContextGiven,
                 bufferSampleRate, mergedSamples, wavBytes, mergePc>>
vars == <<stateVars, refVars, closureVars, libVars, ctlVars, budgetVars, histVars,
          wavVars, voiceStartBuffer>>

\* ---------------------------------------------------------------- helpers
Min(a, b) == IF a < b THEN a ELSE b

MapSet(m, k, v) == [x \in (DOMAIN m) \cup {k} |-> IF x = k THEN v ELSE m[x]]
MapDelete(m, k) == [x \in (DOMAIN m) \ {k} |-> m[x]]

\* Array.prototype.shift: removes the first element, a no-op on [].
Shift(q) == IF q = <<>> THEN q ELSE Tail(q)

Ids(out) == {out[i] : i \in DOMAIN out}

\* Sends whose promise is still pending (awaiting acknowledgement or timeout).
InFlight == {i \in DOMAIN sends : sends[i].st = "waiting"}

Init ==
  /\ isProcessing = FALSE /\ isListening = FALSE /\ isInitializing = FALSE
  /\ error = "null" /\ transcriptions = <<>>
  /\ recorderRef = 0 /\ vadRef = 0 /\ audioContextRef = 0
  /\ audioQueueRef = <<>> /\ sequenceCounterRef = 0
  /\ pendingTranscriptionsRef = EmptyMap /\ nextExpectedSequenceRef = 0
  /\ voiceStartTimeRef = NoTime /\ isVoiceActiveRef = FALSE
  /\ PRE_RECORDING_BUFFER = [s \in Sessions |-> <<>>]
  /\ closureIsProcessing = [s \in Sessions |-> FALSE]
  /\ recorderState = "inactive" /\ vadVoice = FALSE
  /\ session = 0 /\ startPc = "idle" /\ tasks = {} /\ sends = <<>>
  /\ stopCallbacks = [s \in Sessions |-> "none"]
  /\ frameCount = 0 /\ voiceCount = 0 /\ eventCount = 0
  /\ skipped = {} /\ recorded = <<>> /\ remoteFailed = {} /\ failedChunks = {}
  /\ preBufferFrames = <<>> /\ recordedSamples = <<>>
  /\ audioContextGiven = FALSE /\ bufferSampleRate = 0
  /\ mergedSamples = <<>> /\ wavBytes = <<>> /\ mergePc = "idle"
  /\ voiceStartBuffer = <<>>

\* ------------------------------------------------- pre-recording buffer
\* processor.port.onmessage: PRE_RECORDING_BUFFER.length >
\* BUFFER_DURATION / (4096 / audioContext.sampleRate), with the division
\* cross-multiplied (all quantities are positive).
BufferOverLimitAt(len, rate) == len * FrameSamples > BUFFER_DURATION * rate
BufferOverLimit(len) == BufferOverLimitAt(len, SampleRate)

\* A push that would drop the frame just pushed when the length test holds.
PushFrameDropsNewest(buf, frame, rate) ==
  IF BufferOverLimitAt(Len(buf) + 1, rate) THEN buf ELSE Append(buf, frame)

\* push(frame), then shift() when the length test holds.
PushFrameAt(buf, frame, rate) ==
  LET pushed == Append(buf, frame)
  IN IF BufferOverLimitAt(Len(pushed), rate) THEN Tail(pushed) ELSE pushed
PushFrame(buf, frame) == PushFrameAt(buf, frame, SampleRate)

\* Duration, in milliseconds, of len frames of FrameSamples samples, times
\* SampleRate (kept as a product so that no division rounds).
BufferedMsTimesRate(len) == len * FrameSamples * 1000

\* ------------------------------------------------------- reorder buffer
\* processOrderedTranscriptions: while the pending map has the next expected
\* id, append its text (when it has one), delete it, increment the id.
RECURSIVE ReleaseLoop(_, _, _, _)
ReleaseLoop(pending, next, out, skip) ==
  IF next \in DOMAIN pending
  THEN ReleaseLoop(MapDelete(pending, next), next + 1,
                   IF pending[next] THEN Append(out, next) ELSE out,
                   IF pending[next] THEN skip ELSE skip \cup {next})
  ELSE [pending |-> pending, next |-> next, out |-> out, skip |-> skip]

\* A release without the gate on the next expected id: every held result
\* is released at once, smallest id first.
RECURSIVE releaseUngated(_, _, _, _)
releaseUngated(pending, next, out, skip) ==
  IF DOMAIN pending = {}
  THEN [pending |-> pending, next |-> next, out |-> out, skip |-> skip]
  ELSE LET k == CHOOSE x \in DOMAIN pending : \A y \in DOMAIN pending : x <= y
       IN releaseUngated(MapDelete(pending, k),
                         IF k >= next THEN k + 1 ELSE next,
                         IF pending[k] THEN Append(out, k) ELSE out,
                         IF pending[k] THEN skip ELSE skip \cup {k})

\* A release that stops at a result without text instead of passing it.
RECURSIVE releaseStallsOnEmpty(_, _, _, _)
releaseStallsOnEmpty(pending, next, out, skip) ==
  IF next \in DOMAIN pending /\ pending[next]
  THEN releaseStallsOnEmpty(MapDelete(pending, next), next + 1,
                            Append(out, next), skip)
  ELSE [pending |-> pending, next |-> next, out |-> out, skip |-> skip]

processOrderedTranscriptions(pending, next, out, skip) ==
  ReleaseLoop(pending, next, out, skip)

\* ------------------------------------------------------- dispatch queue
\* The guard of processQueue as the closure of session s evaluates it:
\* isProcessing is the value its render captured, the queue is read live.
processQueueSkips(s, queue) == closureIsProcessing[s] \/ Len(queue) = 0

\* What the processing loop does after one send settles: the while test
\* after a success, the break of the catch block after a failure.
\* A loop whose catch block goes on to the next iteration instead of breaking.
loopContinuesOnError(ok, queue) == IF Len(queue) > 0 THEN "send" ELSE "halt"

LoopNext(ok, queue) == IF ok /\ Len(queue) > 0 THEN "send" ELSE "halt"

\* socket.emit('audioDataPartial', head, ack) with its timeout timer armed.
\* retry notes whether a send of this chunk has failed before.
EmitHead(log, queue) ==
  Append(log, [chunk |-> Head(queue), st |-> "waiting",
               retry |-> Head(queue).uid \in failedChunks])

Settle(log, i, st) == [log EXCEPT ![i].st = st]

\* --------------------------------------------------------------- cleanup
\* cleanupAudioResources: every ref and state it assigns.
cleanupAudioResources ==
  /\ vadRef' = 0 /\ vadVoice' = FALSE
  /\ audioContextRef' = 0
  /\ audioQueueRef' = <<>>
  /\ recorderRef' = 0 /\ recorderState' = "inactive"
  /\ pendingTranscriptionsRef' = EmptyMap
  /\ nextExpectedSequenceRef' = 0
  /\ transcriptions' = <<>>
  /\ skipped' = {} /\ recorded' = <<>> /\ remoteFailed' = {}

cleanupUnchanged ==
  UNCHANGED <<sequenceCounterRef, voiceStartTimeRef, isVoiceActiveRef,
              closureVars, tasks, sends, budgetVars, failedChunks, isProcessing>>

\* -------------------------------------------------------- session start
\* startListening up to its first suspension: reset the sequence counter,
\* set isInitializing, run cleanupAudioResources, request the microphone.
startListening ==
  /\ ~isListening /\ ~isInitializing /\ startPc = "idle"
  /\ session < MaxSessions
  /\ session' = session + 1
  /\ closureIsProcessing' = [closureIsProcessing EXCEPT ![session + 1] = isProcessing]
  /\ sequenceCounterRef' = 0
  /\ isInitializing' = TRUE
  /\ cleanupAudioResources
  /\ startPc' = "getUserMedia"
  /\ UNCHANGED <<isProcessing, isListening, error, voiceStartTimeRef,
                 isVoiceActiveRef, PRE_RECORDING_BUFFER, tasks, sends,
                 stopCallbacks, budgetVars, failedChunks>>
  /\ UNCHANGED <<wavVars, voiceStartBuffer>>

\* getUserMedia resolved: the recorder is created, initializeVAD creates the
\* audio context and waits for the worklet module.
getUserMediaResolved ==
  /\ startPc = "getUserMedia"
  /\ recorderRef' = session /\ recorderState' = "inactive"
  /\ audioContextRef' = session
  /\ startPc' = "addModule"
  /\ UNCHANGED <<stateVars, vadRef, audioQueueRef, sequenceCounterRef,
                 pendingTranscriptionsRef, nextExpectedSequenceRef,
                 voiceStartTimeRef, isVoiceActiveRef, closureVars, vadVoice,
                 session, tasks, sends, stopCallbacks, budgetVars, histVars>>
  /\ UNCHANGED <<wavVars, voiceStartBuffer>>

\* The worklet module is loaded: the processor and the VAD are created, and
\* startListening waits out its 2100 ms delay.
addModuleResolved ==
  /\ startPc = "addModule"
  /\ vadRef' = session /\ vadVoice' = FALSE
  /\ startPc' = "delay"
  /\ UNCHANGED <<stateVars, recorderRef, audioContextRef, audioQueueRef,
                 sequenceCounterRef, pendingTranscriptionsRef,
                 nextExpectedSequenceRef, voiceStartTimeRef, isVoiceActiveRef,
                 closureVars, recorderState, session, tasks, sends,
                 stopCallbacks, budgetVars, histVars>>
  /\ UNCHANGED <<wavVars, voiceStartBuffer>>

\* getUserMedia or initializeVAD rejected: the catch block of startListening.
startListeningRejected ==
  /\ startPc \in {"getUserMedia", "addModule"}
  /\ error' = "start failed"
  /\ cleanupAudioResources /\ cleanupUnchanged
  /\ isInitializing' = FALSE
  /\ startPc' = "idle"
  /\ UNCHANGED <<isListening, session, stopCallbacks>>
  /\ UNCHANGED <<wavVars, voiceStartBuffer>>

\* The delay elapsed: the socket check decides between listening and the
\* catch block.
delayElapsed(connected) ==
  /\ startPc = "delay"
  /\ startPc' = "idle"
  /\ isInitializing' = FALSE
  /\ IF connected
     THEN /\ isListening' = TRUE
          /\ error' = "null"
          /\ UNCHANGED <<isProcessing, transcriptions, refVars, closureVars,
                         libVars, tasks, sends, budgetVars, skipped, recorded, remoteFailed,
                         failedChunks>>
     ELSE /\ error' = "Socket not connected"
          /\ cleanupAudioResources /\ cleanupUnchanged
          /\ UNCHANGED isListening
  /\ UNCHANGED <<session, stopCallbacks>>
  /\ UNCHANGED <<wavVars, voiceStartBuffer>>

\* ---------------------------------------------------------- session stop
\* RecordRTC.stopRecording(callback) calls back only when the recorder holds
\* a recording (it was started and not reset since).
RecorderCallsBack == recorderRef # 0 /\ recorderState # "inactive"

\* The cut field of a suspended onVoiceStop call records that stopListening
\* ran while the call was waiting out its trailing-capture delay.
CutHangovers(ts) ==
  {IF t.pc = "hangover" THEN [t EXCEPT !.cut = TRUE] ELSE t : t \in ts}

stopListening ==
  /\ isListening /\ ~isInitializing
  /\ isListening' = FALSE
  /\ tasks' = CutHangovers(tasks)
  /\ IF recorderRef # 0
     THEN /\ vadRef' = 0 /\ vadVoice' = FALSE
          /\ recorderState' = IF RecorderCallsBack THEN "stopped" ELSE recorderState
          /\ stopCallbacks' = IF RecorderCallsBack
                               THEN [stopCallbacks EXCEPT ![session] = "pending"]
                               ELSE stopCallbacks
          /\ UNCHANGED <<isProcessing, isInitializing, error, transcriptions,
                         recorderRef, audioContextRef, audioQueueRef,
                         sequenceCounterRef, pendingTranscriptionsRef,
                         nextExpectedSequenceRef, voiceStartTimeRef,
                         isVoiceActiveRef, closureVars, session, startPc,
                         sends, budgetVars, histVars>>
     ELSE /\ cleanupAudioResources
          /\ UNCHANGED <<sequenceCounterRef, voiceStartTimeRef, isVoiceActiveRef,
                         closureVars, sends, budgetVars, failedChunks,
                         isProcessing>>
          /\ UNCHANGED <<isInitializing, error, session, startPc, stopCallbacks>>
  /\ UNCHANGED <<wavVars, voiceStartBuffer>>

\* The stopRecording callback of stopListening: emit 'audioComplete', clean up.
stopListeningCallback(s) ==
  /\ stopCallbacks[s] = "pending"
  /\ stopCallbacks' = [stopCallbacks EXCEPT ![s] = "done"]
  /\ cleanupAudioResources /\ cleanupUnchanged
  /\ UNCHANGED <<isListening, isInitializing, error, session, startPc>>
  /\ UNCHANGED <<wavVars, voiceStartBuffer>>

\* ------------------------------------------------------------- the clock
\* Time matters only to a pending trailing-capture timer and to the
\* duration a finalization will compute from voiceStartTimeRef. A timer that
\* is due fires before the clock advances by another tick.
Tick ==
  /\ \A t \in tasks : t.pc = "hangover" => t.timer > 0
  /\ \/ \E t \in tasks : t.pc = "hangover"
     \/ /\ voiceStartTimeRef # NoTime /\ voiceStartTimeRef < AgeCap
        /\ (vadVoice \/ \E t \in tasks : t.pc = "hangover")
  /\ voiceStartTimeRef' = IF voiceStartTimeRef = NoTime THEN NoTime
                          ELSE Min(voiceStartTimeRef + 1, AgeCap)
  /\ tasks' = {IF t.pc = "hangover" /\ t.timer > 0
               THEN [t EXCEPT !.timer = t.timer - 1] ELSE t : t \in tasks}
  /\ UNCHANGED <<stateVars, recorderRef, vadRef, audioContextRef, audioQueueRef,
                 sequenceCounterRef, pendingTranscriptionsRef,
                 nextExpectedSequenceRef, isVoiceActiveRef, closureVars, libVars,
                 session, startPc, sends, stopCallbacks, budgetVars, histVars>>
  /\ UNCHANGED <<wavVars, voiceStartBuffer>>

\* ------------------------------------------------------- worklet frames
\* processor.port.onmessage: the frame is buffered unless voice is active.
ProcessorLive == audioContextRef # 0 /\ startPc \notin {"getUserMedia", "addModule"}

onmessage ==
  /\ ProcessorLive
  /\ frameCount < MaxFrames
  /\ frameCount' = frameCount + 1
  /\ PRE_RECORDING_BUFFER' =
       IF ~isVoiceActiveRef
       THEN [PRE_RECORDING_BUFFER EXCEPT
               ![audioContextRef] = PushFrame(@, frameCount + 1)]
       ELSE PRE_RECORDING_BUFFER
  /\ UNCHANGED <<stateVars, refVars, closureIsProcessing, libVars, ctlVars,
                 voiceCount, eventCount, histVars>>
  /\ UNCHANGED <<wavVars, voiceStartBuffer>>

\* ----------------------------------------------------------- VAD events
VadLive == vadRef # 0 /\ audioContextRef # 0

onVoiceStart ==
  /\ VadLive /\ ~vadVoice
  /\ voiceCount < MaxVoice
  /\ voiceCount' = voiceCount + 1
  /\ vadVoice' = TRUE
  /\ IF recorderRef = 0
     THEN UNCHANGED <<isVoiceActiveRef, voiceStartTimeRef, recorderState>>
     ELSE /\ isVoiceActiveRef' = TRUE
          /\ voiceStartTimeRef' = 0
          /\ recorderState' = IF recorderState \in {"inactive", "stopped"}
                              THEN "recording" ELSE recorderState
  /\ UNCHANGED <<stateVars, recorderRef, vadRef, audioContextRef, audioQueueRef,
                 sequenceCounterRef, pendingTranscriptionsRef,
                 nextExpectedSequenceRef, closureVars, ctlVars, frameCount,
                 eventCount, histVars>>
  /\ voiceStartBuffer' = PRE_RECORDING_BUFFER[vadRef]
  /\ UNCHANGED wavVars

\* onVoiceStop up to its trailing-capture delay.
onVoiceStop ==
  /\ VadLive /\ vadVoice
  /\ vadVoice' = FALSE
  /\ isVoiceActiveRef' = FALSE
  /\ tasks' = IF recorderRef = 0 THEN tasks
              ELSE tasks \cup {[id |-> voiceCount, sess |-> vadRef,
                                pc |-> "hangover", timer |-> HangoverTicks,
                                dur |-> 0, preRoll |-> <<>>, decode |-> FALSE,
                                cut |-> FALSE, snapshot |-> voiceStartBuffer]}
  /\ UNCHANGED <<stateVars, recorderRef, vadRef, audioContextRef, audioQueueRef,
                 sequenceCounterRef, pendingTranscriptionsRef,
                 nextExpectedSequenceRef, voiceStartTimeRef, closureVars,
                 recorderState, session, startPc, sends, stopCallbacks,
                 budgetVars, histVars>>
  /\ UNCHANGED <<wavVars, voiceStartBuffer>>

\* ------------------------------------------- onVoiceStop after the delay
UpdateTask(t, new) == (tasks \ {t}) \cup {new}

\* The discard test of the finalization.
DiscardsSegment(duration) == duration < DiscardThresholdMs

\* The delay elapsed: compute the duration, then stop the recorder, either
\* to discard the segment or to fetch its blob.
hangoverElapsed(t) ==
  /\ t.pc = "hangover" /\ t.timer = 0
  /\ LET duration == IF voiceStartTimeRef = NoTime THEN 0
                     ELSE voiceStartTimeRef * TickMs
     IN IF DiscardsSegment(duration)
        THEN /\ UNCHANGED error
             /\ IF RecorderCallsBack
                THEN /\ recorderState' = "stopped"
                     /\ tasks' = UpdateTask(t, [t EXCEPT !.pc = "discard"])
                ELSE /\ UNCHANGED recorderState
                     /\ tasks' = tasks \ {t}
        ELSE IF recorderRef = 0
        THEN /\ error' = "Recorder not initialized"
             /\ tasks' = tasks \ {t}
             /\ UNCHANGED recorderState
        ELSE IF ~RecorderCallsBack
        THEN /\ tasks' = tasks \ {t}
             /\ UNCHANGED <<error, recorderState>>
        ELSE /\ recorderState' = "stopped"
             /\ tasks' = UpdateTask(t, [t EXCEPT !.pc = "stopping", !.dur = duration])
             /\ UNCHANGED error
  /\ UNCHANGED <<isProcessing, isListening, isInitializing, transcriptions,
                 refVars, closureVars, vadVoice, session, startPc, sends,
                 stopCallbacks, budgetVars, histVars>>
  /\ UNCHANGED <<wavVars, voiceStartBuffer>>

\* The stopRecording callback of the discard branch: reset the recorder.
discardCallback(t) ==
  /\ t.pc = "discard"
  /\ tasks' = tasks \ {t}
  /\ recorderState' = IF recorderRef # 0 THEN "inactive" ELSE recorderState
  /\ UNCHANGED <<stateVars, refVars, closureVars, vadVoice, session, startPc,
                 sends, stopCallbacks, budgetVars, histVars>>
  /\ UNCHANGED <<wavVars, voiceStartBuffer>>

\* The stopRecording callback: fetch the blob and start the merge, which
\* flattens the pre-recording buffer at once and then decodes the blob.
stopRecordingCallback(t) ==
  /\ t.pc = "stopping"
  /\ IF RecorderCallsBack
     THEN /\ tasks' = UpdateTask(t,
                 [t EXCEPT !.pc = "merging",
                           !.decode = (audioContextRef # 0),
                           !.preRoll = IF audioContextRef # 0
                                       THEN PRE_RECORDING_BUFFER[t.sess]
                                       ELSE <<>>])
          /\ UNCHANGED error
     ELSE /\ error' = "Failed to get recording blob"
          /\ tasks' = tasks \ {t}
  /\ UNCHANGED <<isProcessing, isListening, isInitializing, transcriptions,
                 refVars, closureVars, libVars, session, startPc, sends,
                 stopCallbacks, budgetVars, histVars>>
  /\ UNCHANGED <<wavVars, voiceStartBuffer>>

\* The merge resolved: clear the pre-recording buffer, convert the blob.
mergeResolved(t) ==
  /\ t.pc = "merging"
  /\ PRE_RECORDING_BUFFER' = [PRE_RECORDING_BUFFER EXCEPT ![t.sess] = <<>>]
  /\ tasks' = UpdateTask(t, [t EXCEPT !.pc = "arrayBuffer"])
  /\ UNCHANGED <<stateVars, refVars, closureIsProcessing, libVars, session,
                 startPc, sends, stopCallbacks, budgetVars, histVars>>
  /\ UNCHANGED <<wavVars, voiceStartBuffer>>

\* A catch block that would run after the sequence id was taken.
mergeRejectedAfterId(t) ==
  /\ t.pc = "merging" /\ t.decode
  /\ error' = "decode failed"
  /\ sequenceCounterRef' = sequenceCounterRef + 1
  /\ tasks' = tasks \ {t}
  /\ UNCHANGED <<isProcessing, isListening, isInitializing, transcriptions,
                 recorderRef, vadRef, audioContextRef, audioQueueRef,
                 pendingTranscriptionsRef, nextExpectedSequenceRef,
                 voiceStartTimeRef, isVoiceActiveRef, closureVars, libVars,
                 session, startPc, sends, stopCallbacks, budgetVars, histVars>>
  /\ UNCHANGED <<wavVars, voiceStartBuffer>>

\* decodeAudioData rejected: the catch block of onVoiceStop.
mergeRejected(t) ==
  /\ t.pc = "merging" /\ t.decode
  /\ error' = "decode failed"
  /\ tasks' = tasks \ {t}
  /\ UNCHANGED <<isProcessing, isListening, isInitializing, transcriptions,
                 refVars, closureVars, libVars, session, startPc, sends,
                 stopCallbacks, budgetVars, histVars>>
  /\ UNCHANGED <<wavVars, voiceStartBuffer>>

\* The blob is converted: assign the sequence id, push the chunk, call
\* processQueue, reset the recorder.
enqueue(t) ==
  /\ t.pc = "arrayBuffer"
  /\ LET chunk == [sequenceId |-> sequenceCounterRef, uid |-> t.id,
                   sess |-> t.sess, dur |-> t.dur]
         queue == Append(audioQueueRef, chunk)
         starts == ~processQueueSkips(t.sess, queue)
     IN /\ starts => Len(sends) < MaxSends
        /\ sequenceCounterRef' = sequenceCounterRef + 1
        /\ audioQueueRef' = queue
        /\ isProcessing' = IF starts THEN TRUE ELSE isProcessing
        /\ sends' = IF starts THEN EmitHead(sends, queue) ELSE sends
  /\ recorderState' = IF recorderRef # 0 THEN "inactive" ELSE recorderState
  /\ tasks' = tasks \ {t}
  /\ UNCHANGED <<isListening, isInitializing, error, transcriptions, recorderRef,
                 vadRef, audioContextRef, pendingTranscriptionsRef,
                 nextExpectedSequenceRef, voiceStartTimeRef, isVoiceActiveRef,
                 closureVars, vadVoice, session, startPc, stopCallbacks,
                 budgetVars, skipped, recorded, remoteFailed, failedChunks>>
  /\ UNCHANGED <<wavVars, voiceStartBuffer>>

\* --------------------------------------------- acknowledgements, timeouts
Acknowledgeable(i) == sends[i].st \in {"waiting", "timedout"}

\* The acknowledgement callback with success: record the result, release,
\* resolve; a pending promise continues the loop: shift, then the while test.
ackSuccess(i, hasText) ==
  /\ Acknowledgeable(i)
  /\ LET chunk == sends[i].chunk
         r == processOrderedTranscriptions(
                MapSet(pendingTranscriptionsRef, chunk.sequenceId, hasText),
                nextExpectedSequenceRef, transcriptions, skipped)
         queue == Shift(audioQueueRef)
     IN /\ pendingTranscriptionsRef' = r.pending
        /\ nextExpectedSequenceRef' = r.next
        /\ transcriptions' = r.out
        /\ skipped' = r.skip
        /\ recorded' = Append(recorded, chunk.sequenceId)
        /\ IF sends[i].st = "waiting"
           THEN /\ audioQueueRef' = queue
                /\ IF LoopNext(TRUE, queue) = "send"
                   THEN /\ Len(sends) < MaxSends
                        /\ sends' = EmitHead(Settle(sends, i, "acked"), queue)
                        /\ UNCHANGED isProcessing
                   ELSE /\ sends' = Settle(sends, i, "acked")
                        /\ isProcessing' = FALSE
           ELSE /\ sends' = Settle(sends, i, "acked")
                /\ UNCHANGED <<audioQueueRef, isProcessing>>
  /\ UNCHANGED <<isListening, isInitializing, error, recorderRef, vadRef,
                 audioContextRef, sequenceCounterRef, voiceStartTimeRef,
                 isVoiceActiveRef, closureVars, libVars, session, startPc, tasks,
                 stopCallbacks, budgetVars, remoteFailed, failedChunks>>
  /\ UNCHANGED <<wavVars, voiceStartBuffer>>

\* A catch block that would swallow the rejection.
RejectedSilently(i, message, st) ==
  /\ error' = error
  /\ failedChunks' = failedChunks \cup {sends[i].chunk.uid}
  /\ sends' = Settle(sends, i, st)
  /\ isProcessing' = FALSE

\* A send whose promise is pending is rejected: the catch block sets the
\* error, and the loop ends or goes on as LoopNext says.
Rejected(i, message, st) ==
  /\ error' = message
  /\ failedChunks' = failedChunks \cup {sends[i].chunk.uid}
  /\ IF LoopNext(FALSE, audioQueueRef) = "send"
     THEN /\ Len(sends) < MaxSends
          /\ sends' = EmitHead(Settle(sends, i, st), audioQueueRef)
          /\ UNCHANGED isProcessing
     ELSE /\ sends' = Settle(sends, i, st)
          /\ isProcessing' = FALSE

\* The acknowledgement callback with success = false.
ackFailure(i, hasError) ==
  /\ Acknowledgeable(i)
  /\ remoteFailed' = remoteFailed \cup {sends[i].chunk.sequenceId}
  /\ IF sends[i].st = "waiting"
     THEN Rejected(i, IF hasError THEN "server error" ELSE "Unknown error occurred",
                   "failed")
     ELSE /\ sends' = Settle(sends, i, "failed")
          /\ UNCHANGED <<error, failedChunks, isProcessing>>
  /\ UNCHANGED <<isListening, isInitializing, transcriptions, refVars,
                 closureVars, libVars, session, startPc, tasks, stopCallbacks,
                 budgetVars, skipped, recorded>>
  /\ UNCHANGED <<wavVars, voiceStartBuffer>>

\* A timer that would be dropped with the queue it belongs to.
sendTimeoutWhileQueued(i) ==
  /\ sends[i].st = "waiting"
  /\ audioQueueRef # <<>>
  /\ Rejected(i, "Server timeout", "timedout")
  /\ UNCHANGED <<isListening, isInitializing, transcriptions, refVars,
                 closureVars, libVars, session, startPc, tasks, stopCallbacks,
                 budgetVars, skipped, recorded, remoteFailed>>
  /\ UNCHANGED <<wavVars, voiceStartBuffer>>

\* A timeout that would also remove the head of the queue.
sendTimeoutDropsHead(i) ==
  /\ sends[i].st = "waiting"
  /\ Rejected(i, "Server timeout", "timedout")
  /\ audioQueueRef' = Shift(audioQueueRef)
  /\ UNCHANGED <<isListening, isInitializing, transcriptions, recorderRef,
                 vadRef, audioContextRef, sequenceCounterRef,
                 pendingTranscriptionsRef, nextExpectedSequenceRef,
                 voiceStartTimeRef, isVoiceActiveRef, closureVars, libVars,
                 session, startPc, tasks, stopCallbacks, budgetVars, skipped,
                 recorded, remoteFailed>>
  /\ UNCHANGED <<wavVars, voiceStartBuffer>>

\* The 5000 ms timer fires before any acknowledgement cleared it.
sendTimeout(i) ==
  /\ sends[i].st = "waiting"
  /\ Rejected(i, "Server timeout", "timedout")
  /\ UNCHANGED <<isListening, isInitializing, transcriptions, refVars,
                 closureVars, libVars, session, startPc, tasks, stopCallbacks,
                 budgetVars, skipped, recorded, remoteFailed>>
  /\ UNCHANGED <<wavVars, voiceStartBuffer>>

\* ------------------------------------------------- 'transcription' events
handleTranscription(id, success, hasText) ==
  /\ eventCount < MaxEvents
  /\ eventCount' = eventCount + 1
  /\ IF success /\ hasText
     THEN LET r == processOrderedTranscriptions(
                     MapSet(pendingTranscriptionsRef, id, TRUE),
                     nextExpectedSequenceRef, transcriptions, skipped)
          IN /\ pendingTranscriptionsRef' = r.pending
             /\ nextExpectedSequenceRef' = r.next
             /\ transcriptions' = r.out
             /\ skipped' = r.skip
             /\ recorded' = Append(recorded, id)
             /\ UNCHANGED remoteFailed
     ELSE /\ remoteFailed' = remoteFailed \cup {id}
          /\ UNCHANGED <<pendingTranscriptionsRef, nextExpectedSequenceRef,
                         transcriptions, skipped, recorded>>
  /\ UNCHANGED <<isProcessing, isListening, isInitializing, error, recorderRef,
                 vadRef, audioContextRef, audioQueueRef, sequenceCounterRef,
                 voiceStartTimeRef, isVoiceActiveRef, closureVars, libVars,
                 ctlVars, frameCount, voiceCount, failedChunks>>
  /\ UNCHANGED <<wavVars, voiceStartBuffer>>

\* The success branch of the acknowledgement callback on its own: the result
\* for id is stored in the pending map and processOrderedTranscriptions runs.
recordResult(id, hasText) ==
  /\ id \notin Ids(recorded)
  /\ LET r == processOrderedTranscriptions(
                MapSet(pendingTranscriptionsRef, id, hasText),
                nextExpectedSequenceRef, transcriptions, skipped)
     IN /\ pendingTranscriptionsRef' = r.pending
        /\ nextExpectedSequenceRef' = r.next
        /\ transcriptions' = r.out
        /\ skipped' = r.skip
        /\ recorded' = Append(recorded, id)
  /\ UNCHANGED <<isProcessing, isListening, isInitializing, error, recorderRef,
                 vadRef, audioContextRef, audioQueueRef, sequenceCounterRef,
                 voiceStartTimeRef, isVoiceActiveRef, closureVars, libVars,
                 ctlVars, budgetVars, remoteFailed, failedChunks>>
  /\ UNCHANGED <<wavVars, voiceStartBuffer>>

\* Sequence ids the remote has been sent.
SentIds == {sends[i].chunk.sequenceId : i \in DOMAIN sends}

\* ------------------------------------------------------- specifications
Session ==
  \/ startListening
  \/ getUserMediaResolved
  \/ addModuleResolved
  \/ startListeningRejected
  \/ \E connected \in BOOLEAN : delayElapsed(connected)
  \/ stopListening
  \/ \E s \in Sessions : stopListeningCallback(s)

Segmenter ==
  \/ Tick
  \/ onVoiceStart
  \/ onVoiceStop
  \/ \E t \in tasks : hangoverElapsed(t)
  \/ \E t \in tasks : discardCallback(t)
  \/ \E t \in tasks : stopRecordingCallback(t)
  \/ \E t \in tasks : mergeResolved(t)
  \/ \E t \in tasks : mergeRejected(t)
  \/ \E t \in tasks : enqueue(t)

Transport ==
  \/ \E i \in DOMAIN sends, hasText \in BOOLEAN : ackSuccess(i, hasText)
  \/ \E i \in DOMAIN sends, hasError \in BOOLEAN : ackFailure(i, hasError)
  \/ \E i \in DOMAIN sends : sendTimeout(i)

\* Sessions, segments, the dispatch queue and the reorder buffer; the remote
\* may send a 'transcription' event bearing any sequence id. Worklet frames
\* are left out: they change the pre-recording buffer and nothing else.
Next ==
  \/ Session
  \/ Segmenter
  \/ Transport
  \/ \E id \in SeqIds, success \in BOOLEAN, hasText \in BOOLEAN :
       handleTranscription(id, success, hasText)

Spec == Init /\ [][Next]_vars

\* The same, with a remote that sends 'transcription' events only for
\* sequence ids it was sent.
NextSolicited ==
  \/ Session
  \/ Segmenter
  \/ Transport
  \/ \E id \in SentIds, success \in BOOLEAN, hasText \in BOOLEAN :
       handleTranscription(id, success, hasText)

SpecSolicited == Init /\ [][NextSolicited]_vars

\* Sessions, worklet frames and segments up to the enqueue; no remote.
NextCapture ==
  \/ Session
  \/ Segmenter
  \/ onmessage

SpecCapture == Init /\ [][NextCapture]_vars

\* Sessions that always start (the microphone is granted, the worklet loads,
\* the socket is connected) and so end only by stopListening; no
\* 'transcription' events.
NextConnected ==
  \/ startListening
  \/ getUserMediaResolved
  \/ addModuleResolved
  \/ delayElapsed(TRUE)
  \/ stopListening
  \/ \E s \in Sessions : stopListeningCallback(s)
  \/ Segmenter
  \/ Transport

SpecConnected == Init /\ [][NextConnected]_vars

\* The same with the timers of the runtime: a timer that was set and not
\* cleared fires, so the timeout of a send that stays pending is taken.
SpecTimed ==
  /\ Init /\ [][NextConnected]_vars
  /\ \A i \in 1..MaxSends : WF_vars(i \in DOMAIN sends /\ sendTimeout(i))

\* The pre-recording buffer alone, in a listening session without voice whose
\* audio context runs at LowSampleRate: the worklet delivers frame after
\* frame, enough of them for the length test of onmessage to hold.
InitBuffer ==
  /\ isProcessing = FALSE /\ isListening = TRUE /\ isInitializing = FALSE
  /\ error = "null" /\ transcriptions = <<>>
  /\ recorderRef = 1 /\ vadRef = 1 /\ audioContextRef = 1
  /\ audioQueueRef = <<>> /\ sequenceCounterRef = 0
  /\ pendingTranscriptionsRef = EmptyMap /\ nextExpectedSequenceRef = 0
  /\ voiceStartTimeRef = NoTime /\ isVoiceActiveRef = FALSE
  /\ PRE_RECORDING_BUFFER = [s \in Sessions |-> <<>>]
  /\ closureIsProcessing = [s \in Sessions |-> FALSE]
  /\ recorderState = "inactive" /\ vadVoice = FALSE
  /\ session = 1 /\ startPc = "idle" /\ tasks = {} /\ sends = <<>>
  /\ stopCallbacks = [s \in Sessions |-> "none"]
  /\ frameCount = 0 /\ voiceCount = 0 /\ eventCount = 0
  /\ skipped = {} /\ recorded = <<>> /\ remoteFailed = {} /\ failedChunks = {}
  /\ preBufferFrames = <<>> /\ recordedSamples = <<>>
  /\ audioContextGiven = FALSE /\ bufferSampleRate = 0
  /\ mergedSamples = <<>> /\ wavBytes = <<>> /\ mergePc = "idle"
  /\ voiceStartBuffer = <<>>

\* processor.port.onmessage with audioContext.sampleRate = LowSampleRate.
onmessageLowRate ==
  /\ ProcessorLive
  /\ frameCount < MaxLowRateFrames
  /\ frameCount' = frameCount + 1
  /\ PRE_RECORDING_BUFFER' =
       IF ~isVoiceActiveRef
       THEN [PRE_RECORDING_BUFFER EXCEPT
               ![audioContextRef] = PushFrameAt(@, frameCount + 1, LowSampleRate)]
       ELSE PRE_RECORDING_BUFFER
  /\ UNCHANGED <<stateVars, refVars, closureIsProcessing, libVars, ctlVars,
                 voiceCount, eventCount, histVars>>
  /\ UNCHANGED <<wavVars, voiceStartBuffer>>

NextBuffer == onmessageLowRate

SpecBuffer == InitBuffer /\ [][NextBuffer]_vars

\* The reorder buffer alone: the results of ids 0..MaxResultId are recorded
\* in any order, each with or without text.
NextReorder ==
  \E id \in 0..MaxResultId, hasText \in BOOLEAN : recordResult(id, hasText)

SpecReorder == Init /\ [][NextReorder]_vars

\* ------------------------------------------------------------ the merge
\* A sample is held as its numerator over SampleDen.
SeqsUpTo(S, n) == UNION {[1..k -> S] : k \in 0..n}

Zeros(n) == [i \in 1..n |-> 0]

\* TypedArray.prototype.set(source, offset).
TypedSet(target, source, offset) ==
  [i \in 1..Len(target) |->
     IF offset < i /\ i <= offset + Len(source) THEN source[i - offset]
     ELSE target[i]]

RECURSIVE TotalLength(_)
TotalLength(chunks) ==
  IF chunks = <<>> THEN 0 ELSE Len(Head(chunks)) + TotalLength(Tail(chunks))

RECURSIVE FlattenLoop(_, _, _)
FlattenLoop(chunks, result, offset) ==
  IF chunks = <<>> THEN result
  ELSE FlattenLoop(Tail(chunks), TypedSet(result, Head(chunks), offset),
                   offset + Len(Head(chunks)))

\* flattenFloat32Arrays: sum the lengths, then set each chunk at its offset.
flattenFloat32Arrays(chunks) ==
  FlattenLoop(chunks, Zeros(TotalLength(chunks)), 0)

\* A merge that would put the recorded samples first.
MergeRecordedFirst(frames, samples) ==
  LET flattenedPreBuffer == flattenFloat32Arrays(frames)
      mergedLength == Len(flattenedPreBuffer) + Len(samples)
  IN TypedSet(TypedSet(Zeros(mergedLength), samples, 0),
              flattenedPreBuffer, Len(samples))

\* Step 3 of the merge: the flattened pre-buffer, then the recorded samples.
MergeSamples(frames, samples) ==
  LET flattenedPreBuffer == flattenFloat32Arrays(frames)
      mergedLength == Len(flattenedPreBuffer) + Len(samples)
  IN TypedSet(TypedSet(Zeros(mergedLength), flattenedPreBuffer, 0),
              samples, Len(flattenedPreBuffer))

\* DataView.setUint16 / setUint32 / setInt16 with littleEndian = true.
Uint16LE(v) == <<v % 256, (v \div 256) % 256>>
Uint32LE(v) == Uint16LE(v % 65536) \o Uint16LE((v \div 65536) % 65536)
Int16LE(v)  == Uint16LE((v + 65536) % 65536)

Clamp(s) == IF s < 0 - SampleDen THEN 0 - SampleDen
            ELSE IF s > SampleDen THEN SampleDen ELSE s

\* The integer setInt16 makes of c * scale / SampleDen: the fraction is
\* dropped (truncation toward zero).
Scale(c) ==
  IF c < 0 THEN 0 - (((0 - c) * NegativeScale) \div SampleDen)
  ELSE (c * PositiveScale) \div SampleDen

\* A scaling without the clamp.
ScaleUnclamped(s) == Scale(s)

\* The 16-bit value stored for a sample: clamp to [-1, 1], scale by 0x8000
\* or 0x7fff.
ScaleSample(s) == Scale(Clamp(s))

RECURSIVE WritePcm(_)
WritePcm(samples) ==
  IF samples = <<>> THEN <<>>
  ELSE Int16LE(ScaleSample(Head(samples))) \o WritePcm(Tail(samples))

\* encodeWAV: the 44-byte header, then the samples as 16-bit PCM.
encodeWAV(samples, sampleRate) ==
  LET blockAlign == NumChannels * (BitsPerSample \div 8)
      byteRate   == sampleRate * blockAlign
      dataSize   == Len(samples) * (BitsPerSample \div 8)
  IN <<82, 73, 70, 70>> \o Uint32LE(36 + dataSize) \o <<87, 65, 86, 69>>
       \o <<102, 109, 116, 32>> \o Uint32LE(16) \o Uint16LE(1)
       \o Uint16LE(NumChannels) \o Uint32LE(sampleRate) \o Uint32LE(byteRate)
       \o Uint16LE(blockAlign) \o Uint16LE(BitsPerSample)
       \o <<100, 97, 116, 97>> \o Uint32LE(dataSize)
       \o WritePcm(samples)

\* mergePreRecordingBufferWithRecordedAudio once the recorded blob is
\* decoded: without an audio context the recorded blob is returned as it is
\* (its bytes are the recorder's and are not held here); with one, the
\* samples are merged and encoded.
mergePreRecordingBufferWithRecordedAudio ==
  /\ mergePc = "called"
  /\ IF audioContextGiven
     THEN /\ mergedSamples' = MergeSamples(preBufferFrames, recordedSamples)
          /\ wavBytes' = encodeWAV(mergedSamples', bufferSampleRate)
          /\ mergePc' = "merged"
     ELSE /\ mergedSamples' = recordedSamples
          /\ wavBytes' = <<>>
          /\ mergePc' = "returned"
  /\ UNCHANGED <<preBufferFrames, recordedSamples, audioContextGiven,
                 bufferSampleRate>>
  /\ UNCHANGED <<stateVars, refVars, closureVars, libVars, ctlVars, budgetVars,
                 histVars, voiceStartBuffer>>

\* The inputs of the merge: either some frames and samples that are silent
\* or full scale, or no frame and samples of any value.
CoarseSamples == {0, SampleDen}
FineSamples   == (0 - SampleDen - SampleOver)..(SampleDen + SampleOver)

InitMerge ==
  /\ isProcessing = FALSE /\ isListening = FALSE /\ isInitializing = FALSE
  /\ error = "null" /\ transcriptions = <<>>
  /\ recorderRef = 0 /\ vadRef = 0 /\ audioContextRef = 0
  /\ audioQueueRef = <<>> /\ sequenceCounterRef = 0
  /\ pendingTranscriptionsRef = EmptyMap /\ nextExpectedSequenceRef = 0
  /\ voiceStartTimeRef = NoTime /\ isVoiceActiveRef = FALSE
  /\ PRE_RECORDING_BUFFER = [s \in Sessions |-> <<>>]
  /\ closureIsProcessing = [s \in Sessions |-> FALSE]
  /\ recorderState = "inactive" /\ vadVoice = FALSE
  /\ session = 0 /\ startPc = "idle" /\ tasks = {} /\ sends = <<>>
  /\ stopCallbacks = [s \in Sessions |-> "none"]
  /\ frameCount = 0 /\ voiceCount = 0 /\ eventCount = 0
  /\ skipped = {} /\ recorded = <<>> /\ remoteFailed = {} /\ failedChunks = {}
  /\ \/ /\ preBufferFrames \in SeqsUpTo(SeqsUpTo(CoarseSamples, MaxFrameLen), MaxPreFrames)
        /\ recordedSamples \in SeqsUpTo(CoarseSamples, MaxRecorded)
     \/ /\ preBufferFrames = <<>>
        /\ recordedSamples \in SeqsUpTo(FineSamples, MaxRecorded)
  /\ audioContextGiven \in BOOLEAN
  /\ bufferSampleRate \in {44100, SampleRate}
  /\ mergedSamples = <<>> /\ wavBytes = <<>> /\ mergePc = "called"
  /\ voiceStartBuffer = <<>>

NextMerge == mergePreRecordingBufferWithRecordedAudio

SpecMerge == InitMerge /\ [][NextMerge]_vars

\* ================================================================ claims

\* Steps that run cleanupAudioResources (session start, its catch block,
\* stopListening without a recorder, the stopListening callback).
CleanupStep ==
  \/ session' # session
  \/ startPc # "idle" /\ startPc' = "idle" /\ ~isListening'
  \/ isListening /\ ~isListening' /\ recorderRef = 0
  \/ stopCallbacks' # stopCallbacks /\ isListening' = isListening

\* Steps in which onVoiceStop pushes a chunk and calls processQueue.
EnqueueStep == sequenceCounterRef' = sequenceCounterRef + 1

\* The send i ends, in this step, in a timeout or a failed acknowledgement.
FailsNow(i) == sends[i].st = "waiting" /\ sends'[i].st \in {"timedout", "failed"}

\* The send i is acknowledged with success, in this step, while pending.
SucceedsNow(i) == sends[i].st = "waiting" /\ sends'[i].st = "acked"

QueueUids(queue) == {queue[n].uid : n \in DOMAIN queue}

\* C1: at most one 'audioDataPartial' send is awaiting its acknowledgement
\* or timeout at any time.
AtMostOneInFlight == Cardinality(InFlight) <= 1

\* C2: the output list holds sequence ids in ascending order, and every id
\* smaller than an emitted id has been emitted or skipped, in whatever order
\* the results were recorded.
OrderedRelease ==
  /\ \A i, j \in DOMAIN transcriptions :
       i < j => transcriptions[i] < transcriptions[j]
  /\ \A i \in DOMAIN transcriptions :
       \A k \in 0..(transcriptions[i] - 1) :
         k \in skipped \cup Ids(transcriptions)

\* C2 witness: id 1 was recorded before id 0, and both were emitted in order.
OrderedReleaseWitness ==
  /\ Len(recorded) >= 2 /\ recorded[1] = 1 /\ recorded[2] = 0
  /\ transcriptions = <<0, 1>>

\* C3: the buffered duration (frames held times the duration of a frame of
\* 4096 samples) never exceeds BUFFER_DURATION milliseconds.
BufferWithinWindow ==
  \A s \in Sessions :
    BufferedMsTimesRate(Len(PRE_RECORDING_BUFFER[s])) <= BUFFER_DURATION * SampleRate

\* C4: no chunk in the queue has a duration below minSpeechDuration: a segment
\* that short is never enqueued.
ShortSegmentNeverEnqueued ==
  \A n \in DOMAIN audioQueueRef : audioQueueRef[n].dur >= minSpeechDuration

\* C5: the next expected sequence id never exceeds the next id to assign.
ExpectedAtMostAssigned == nextExpectedSequenceRef <= sequenceCounterRef

\* The chunk of send i is the head of the queue.
SendsHead(i) ==
  audioQueueRef # <<>> /\ Head(audioQueueRef).uid = sends[i].chunk.uid

\* C6: when the send of the head chunk ends in a timeout or a failed
\* acknowledgement, the chunk is still the head of the queue, no chunk is sent
\* in that step, and no send is left in flight (processing has halted).
HaltsOnFailure ==
  [][\A i \in DOMAIN sends :
       SendsHead(i) /\ FailsNow(i) =>
         /\ audioQueueRef' # <<>>
         /\ Head(audioQueueRef').uid = sends[i].chunk.uid
         /\ Len(sends') = Len(sends)
         /\ \A j \in DOMAIN sends' : sends'[j].st # "waiting"]_vars

\* C7: a chunk whose send has failed is sent again only in a step in which
\* onVoiceStop invokes processQueue, never by the loop that handled the
\* failure nor by the continuation of any other acknowledgement or timeout.
NoAutomaticResend ==
  [][\A n \in (DOMAIN sends') \ (DOMAIN sends) :
       sends'[n].chunk.uid \in failedChunks' => EnqueueStep]_vars

\* C7 witness: a chunk whose send had failed has been sent again.
ResentAfterFailure == \E n \in DOMAIN sends : sends[n].retry

\* C8: release never leaves the next expected id in the pending map, and an
\* id released without text is removed from the map, absent from the output
\* and below the next expected id, with every id between it and the next
\* expected id emitted or skipped in the same step.
EmptyResultResolved ==
  [][/\ nextExpectedSequenceRef' \notin DOMAIN pendingTranscriptionsRef'
     /\ \A k \in skipped' \ skipped :
          /\ k \notin DOMAIN pendingTranscriptionsRef'
          /\ k \notin Ids(transcriptions')
          /\ nextExpectedSequenceRef' > k
          /\ \A j \in (k + 1)..(nextExpectedSequenceRef' - 1) :
               j \in skipped' \cup Ids(transcriptions')
          /\ \A j \in DOMAIN pendingTranscriptionsRef :
               (j > k /\ \A m \in (k + 1)..j : m \in DOMAIN pendingTranscriptionsRef)
                 => /\ j \notin DOMAIN pendingTranscriptionsRef'
                    /\ pendingTranscriptionsRef[j] => j \in Ids(transcriptions')]_vars

\* C8 witness: ids 2 and 1 were recorded and held, then id 0 was recorded
\* without text: it was passed over and ids 1 and 2 were emitted.
SkippedThenEmitted ==
  /\ recorded = <<2, 1, 0>>
  /\ skipped = {0} /\ transcriptions = <<1, 2>>
  /\ nextExpectedSequenceRef = 3 /\ DOMAIN pendingTranscriptionsRef = {}

\* C9: an id the remote reported as failed or malformed does not hold back
\* the result recorded for the id after it.
FailedResultDoesNotStall ==
  \A k \in remoteFailed :
    ~(k = nextExpectedSequenceRef /\ (k + 1) \in DOMAIN pendingTranscriptionsRef)

\* C10: outside cleanupAudioResources, a chunk leaves the queue only in the
\* step in which a pending send of that chunk is acknowledged with success.
RemovedOnlyByOwnAck ==
  [][~CleanupStep =>
       \A u \in QueueUids(audioQueueRef) \ QueueUids(audioQueueRef') :
         \E i \in DOMAIN sends : sends[i].chunk.uid = u /\ SucceedsNow(i)]_vars

\* Session s was stopped and cleanupAudioResources has run since (in a
\* behaviour of SpecConnected, where a session ends only by stopListening):
\* a later session exists, or s is the latest session, it is not listening
\* and its audio context is gone.
TornDown(s) ==
  \/ s < session
  \/ s = session /\ startPc = "idle" /\ ~isListening /\ audioContextRef = 0

\* The promise of send i is settled or its acknowledgement runs in this step.
Answered(i) == sends'[i].st # sends[i].st

\* The suspended onVoiceStop call t resumes in this step (a clock tick only
\* brings its timer closer).
Resumes(t) == \A u \in tasks' : u.id = t.id => u.pc # t.pc

\* C11: once a session is torn down, the acknowledgement or timeout of one of
\* its sends leaves the queue, the pending map, the next expected id and the
\* output list unchanged and sends nothing, and a resumed onVoiceStop call of
\* that session enqueues nothing and sends nothing.
NoEffectAfterTeardown ==
  [][/\ \A i \in DOMAIN sends :
          TornDown(sends[i].chunk.sess) /\ Answered(i) =>
            /\ UNCHANGED <<audioQueueRef, pendingTranscriptionsRef,
                           nextExpectedSequenceRef, transcriptions>>
            /\ Len(sends') = Len(sends)
     /\ \A t \in tasks :
          TornDown(t.sess) /\ Resumes(t) =>
            /\ UNCHANGED <<audioQueueRef, sequenceCounterRef>>
            /\ Len(sends') = Len(sends)]_vars

\* The stopRecording callback of the stopListening call of session s runs in
\* this step: 'audioComplete' is emitted.
AudioCompleteStep(s) ==
  stopCallbacks[s] = "pending" /\ stopCallbacks'[s] = "done"

\* Chunk c has been put on the wire at least once.
Sent(c) == \E i \in DOMAIN sends : sends[i].chunk.uid = c.uid

\* C13: 'audioComplete' comes after the last chunk of its session: when it is
\* emitted no enqueued chunk of the session is still unsent, and no chunk of
\* a session is sent once the session's 'audioComplete' has been emitted.
AudioCompleteAfterLastChunk ==
  [][/\ \A s \in Sessions :
          AudioCompleteStep(s) =>
            \A n \in DOMAIN audioQueueRef :
              audioQueueRef[n].sess = s => Sent(audioQueueRef[n])
     /\ \A n \in (DOMAIN sends') \ (DOMAIN sends) :
          stopCallbacks[sends'[n].chunk.sess] # "done"]_vars

\* C14: a segment that was waiting out its trailing-capture delay when the
\* session was stopped never receives a sequence id, is never enqueued and is
\* never sent, whichever step of its finalization resumes.
StoppedSegmentDiscarded ==
  [][\A t \in tasks :
       t.cut /\ Resumes(t) =>
         /\ UNCHANGED <<sequenceCounterRef, audioQueueRef>>
         /\ Len(sends') = Len(sends)]_vars

\* C15: while the recorder is recording a segment, a frame delivered by the
\* audio worklet is not pushed into the pre-recording buffer.
BufferIdleWhileRecording ==
  [][frameCount' # frameCount /\ recorderRef # 0 /\ recorderState = "recording"
       => PRE_RECORDING_BUFFER' = PRE_RECORDING_BUFFER]_vars

\* Chunks that are in the queue or were put on the wire.
KnownChunks ==
  {audioQueueRef[n] : n \in DOMAIN audioQueueRef}
    \cup {sends[i].chunk : i \in DOMAIN sends}

\* C16: the queue holds consecutive ascending sequence ids, and no two
\* chunks of one session carry the same sequence id.
ConsecutiveSequenceIds ==
  /\ \A n \in DOMAIN audioQueueRef :
       n > 1 => audioQueueRef[n].sequenceId = audioQueueRef[n - 1].sequenceId + 1
  /\ \A c, d \in KnownChunks :
       c.sess = d.sess /\ c.sequenceId = d.sequenceId => c.uid = d.uid

\* C17: of two chunks of the running session, the one whose voice-stop event
\* came first (uid numbers the voice events in order) carries the smaller
\* sequence id.
IdsFollowVoiceStopOrder ==
  \A c, d \in KnownChunks :
    c.sess = session /\ d.sess = session /\ c.uid < d.uid
      => c.sequenceId < d.sequenceId

\* C18: a chunk with sequence id k + 1 goes on the wire only when a send of
\* the chunk with sequence id k of the same session has been acknowledged
\* with success.
FifoOnTheWire ==
  [][\A n \in (DOMAIN sends') \ (DOMAIN sends) :
       sends'[n].chunk.sequenceId > 0 =>
         \E i \in DOMAIN sends' :
           /\ sends'[i].st = "acked"
           /\ sends'[i].chunk.sess = sends'[n].chunk.sess
           /\ sends'[i].chunk.sequenceId = sends'[n].chunk.sequenceId - 1]_vars

\* The duration onVoiceStop computes when its delay has elapsed.
SegmentDuration ==
  IF voiceStartTimeRef = NoTime THEN 0 ELSE voiceStartTimeRef * TickMs

\* The onVoiceStop call t ends in this step in its catch block: the recorder
\* is gone when the blob is asked for, no blob comes back, or the merge
\* (decodeAudioData) rejects.
SegmentFails(t) ==
  /\ \A u \in tasks' : u.id # t.id
  /\ \/ t.pc \in {"stopping", "merging"}
     \/ /\ t.pc = "hangover" /\ t.timer = 0
        /\ ~DiscardsSegment(SegmentDuration) /\ recorderRef = 0

TransportFailure(i) ==
  sends'[i].st \in {"timedout", "failed"} /\ sends'[i].st # sends[i].st

\* C20: a timeout or a failed acknowledgement leaves the queue, the sequence
\* counter, the next expected id, the pending results, the emitted
\* transcriptions and the listening and initializing flags as they were, and
\* sends nothing.
FailureChangesOnlyIndicators ==
  [][\A i \in DOMAIN sends :
       TransportFailure(i) =>
         /\ UNCHANGED <<audioQueueRef, sequenceCounterRef, nextExpectedSequenceRef,
                        pendingTranscriptionsRef, transcriptions, isListening,
                        isInitializing, tasks>>
         /\ Len(sends') = Len(sends)]_vars

\* A send of the head chunk timed out; both chunks are still queued in order.
TimedOutHeadStillQueued ==
  /\ error = "Server timeout" /\ ~isProcessing
  /\ Len(audioQueueRef) = 2
  /\ audioQueueRef[1].sequenceId = 0 /\ audioQueueRef[2].sequenceId = 1
  /\ \E i \in DOMAIN sends :
       sends[i].st = "timedout" /\ sends[i].chunk.uid = audioQueueRef[1].uid

\* C21: a send that times out while pending sets the error to 'Server
\* timeout', one that is acknowledged with success = false sets it to the
\* server's text or to 'Unknown error occurred'; in both cases the queue is
\* left as it is, the loop ends and the busy flag is cleared.
TransportFailureSurfaced ==
  [][\A i \in DOMAIN sends :
       FailsNow(i) =>
         /\ sends'[i].st = "timedout" => error' = "Server timeout"
         /\ sends'[i].st = "failed" =>
              error' \in {"server error", "Unknown error occurred"}
         /\ audioQueueRef' = audioQueueRef
         /\ ~isProcessing'
         /\ Len(sends') = Len(sends)]_vars

\* A failed acknowledgement without a text has been surfaced.
UnknownErrorSurfaced ==
  /\ error = "Unknown error occurred"
  /\ \E i \in DOMAIN sends :
       /\ sends[i].st = "failed"
       /\ audioQueueRef # <<>> /\ audioQueueRef[1].uid = sends[i].chunk.uid

\* The catch block of startListening runs in this step.
StartFails == startPc # "idle" /\ startPc' = "idle" /\ ~isListening'

\* The current session ended in the catch block of startListening.
StartFailed ==
  /\ session > 0 /\ startPc = "idle" /\ ~isListening
  /\ error \in {"start failed", "Socket not connected"}

\* C22: a session whose start fails sets the error, never becomes listening,
\* clears isInitializing and releases the VAD, the audio context and the
\* recorder; afterwards no segment of that session is enqueued or sent.
StartFailureIsFatal ==
  [][/\ StartFails =>
          /\ error' # "null" /\ ~isListening' /\ ~isInitializing'
          /\ vadRef' = 0 /\ audioContextRef' = 0 /\ recorderRef' = 0
     /\ StartFailed =>
          /\ ~isListening'
          /\ \A n \in DOMAIN audioQueueRef' : audioQueueRef'[n].sess # session
          /\ \A n \in (DOMAIN sends') \ (DOMAIN sends) :
               sends'[n].chunk.sess # session]_vars

\* Reading the payload back: little-endian fields at a byte offset, and the
\* i-th 16-bit PCM value after the header.
Uint16At(bytes, offset) == bytes[offset + 1] + 256 * bytes[offset + 2]
Uint32At(bytes, offset) ==
  Uint16At(bytes, offset) + 65536 * Uint16At(bytes, offset + 2)
Int16At(bytes, i) ==
  LET u == Uint16At(bytes, HeaderBytes + 2 * (i - 1))
  IN IF u >= NegativeScale THEN u - 2 * NegativeScale ELSE u

Abs(x) == IF x < 0 THEN 0 - x ELSE x

\* C24: a sample s in [-1, 1] that encodeWAV wrote and that is read back as
\* 16-bit PCM (value / 32768) differs from s by at most 1/32768; with
\* s = n / SampleDen this is |n * 32768 - value * SampleDen| <= SampleDen.
RoundTripWithinOneStep ==
  mergePc = "merged" =>
    \A i \in DOMAIN mergedSamples :
      Abs(mergedSamples[i]) <= SampleDen =>
        Abs(mergedSamples[i] * NegativeScale - Int16At(wavBytes, i) * SampleDen)
          <= SampleDen

\* Samples of the pre-recording buffer before frame f.
FrameOffset(frames, f) == TotalLength(SubSeq(frames, 1, f - 1))

\* C27: the merged samples are the samples of the pre-recording frames, frame
\* by frame in buffer order, then the recorded samples in order, and nothing
\* else: the length is the sum of the lengths.
MergedIsPreRollThenRecorded ==
  mergePc = "merged" =>
    /\ Len(mergedSamples) = TotalLength(preBufferFrames) + Len(recordedSamples)
    /\ \A f \in DOMAIN preBufferFrames :
         \A k \in DOMAIN preBufferFrames[f] :
           mergedSamples[FrameOffset(preBufferFrames, f) + k] = preBufferFrames[f][k]
    /\ \A k \in DOMAIN recordedSamples :
         mergedSamples[TotalLength(preBufferFrames) + k] = recordedSamples[k]

\* Two frames and two recorded samples have been merged.
TwoFramesMerged ==
  /\ mergePc = "merged"
  /\ preBufferFrames = <<<<SampleDen, 0>>, <<0>>>>
  /\ recordedSamples = <<SampleDen, 0>>
  /\ mergedSamples = <<SampleDen, 0, 0, SampleDen, 0>>

\* C28: for n samples encodeWAV writes 44 + 2n bytes; the header declares one
\* channel, 16 bits per sample, the sample rate and a data size of 2n; the
\* i-th 16-bit value v is the i-th sample clamped to [-1, 1] and scaled by
\* 0x7fff (non-negative) or 0x8000 (negative) without its fraction, and lies
\* in -32768..32767.
WavLayout ==
  mergePc = "merged" =>
    /\ Len(wavBytes) = HeaderBytes + 2 * Len(mergedSamples)
    /\ Uint16At(wavBytes, 22) = 1
    /\ Uint16At(wavBytes, 34) = 16
    /\ Uint32At(wavBytes, 24) = bufferSampleRate
    /\ Uint32At(wavBytes, 40) = 2 * Len(mergedSamples)
    /\ \A i \in DOMAIN mergedSamples :
         LET s == mergedSamples[i]
             c == IF s > SampleDen THEN SampleDen
                  ELSE IF s < 0 - SampleDen THEN 0 - SampleDen ELSE s
             v == Int16At(wavBytes, i)
         IN /\ v >= 0 - 32768 /\ v <= 32767
            /\ c >= 0 => v * SampleDen <= c * 32767 /\ c * 32767 < (v + 1) * SampleDen
            /\ c < 0 => (0 - v) * SampleDen <= (0 - c) * 32768
                        /\ (0 - c) * 32768 < (1 - v) * SampleDen

\* Two samples beyond full scale have been written as 32767 and -32768.
OverRangeClamped ==
  /\ mergePc = "merged"
  /\ mergedSamples = <<SampleDen + SampleOver, 0 - SampleDen - SampleOver>>
  /\ Int16At(wavBytes, 1) = 32767 /\ Int16At(wavBytes, 2) = 0 - 32768

\* A session is active from its startListening call until it is stopped or
\* its start fails.
SessionActive == startPc # "idle" \/ isListening

\* C25: the step that starts a session leaves the sequence counter and the
\* next expected id at 0 and the queue and the pending map empty, and while
\* that session is active no step takes the counter or the next expected id
\* back.
ResetOncePerSession ==
  [][/\ session' # session =>
          /\ sequenceCounterRef' = 0 /\ nextExpectedSequenceRef' = 0
          /\ audioQueueRef' = <<>> /\ pendingTranscriptionsRef' = EmptyMap
     /\ SessionActive /\ SessionActive' /\ session' = session =>
          /\ sequenceCounterRef' >= sequenceCounterRef
          /\ nextExpectedSequenceRef' >= nextExpectedSequenceRef]_vars

\* C26: every send that was started is settled in the end, by an
\* acknowledgement or by its timeout, whatever the remote does.
EverySendSettles ==
  \A i \in 1..MaxSends :
    (i \in DOMAIN sends /\ sends[i].st = "waiting")
      ~> (i \in DOMAIN sends /\ sends[i].st # "waiting")

\* Two sends were started and the remote answered neither.
BothSendsTimedOut ==
  /\ Len(sends) = 2
  /\ \A i \in DOMAIN sends : sends[i].st = "timedout"

\* C29: an enqueue made while no send is in flight sends the head of the
\* queue in the same step; an enqueue made while a send is in flight appends
\* the chunk and sends nothing.
EnqueueSendsOnlyWhenIdle ==
  [][EnqueueStep =>
       /\ Len(audioQueueRef') = Len(audioQueueRef) + 1
       /\ SubSeq(audioQueueRef', 1, Len(audioQueueRef)) = audioQueueRef
       /\ InFlight = {} =>
            /\ Len(sends') = Len(sends) + 1
            /\ sends'[Len(sends')].chunk = audioQueueRef'[1]
            /\ sends'[Len(sends')].st = "waiting"
       /\ InFlight # {} => Len(sends') = Len(sends)]_vars

\* The isProcessing value the guard of processQueue reads in an enqueue
\* step: the one captured by the callbacks of the enqueuing call's session.
GuardReads == closureIsProcessing[audioQueueRef'[Len(audioQueueRef')].sess]

\* C30: the isProcessing value that the guard of processQueue reads is true
\* exactly when a send is in flight.
BusyIndicatorAccurate ==
  [][EnqueueStep => (GuardReads <=> InFlight # {})]_vars

\* The onVoiceStop call t hands the pre-recording buffer to the merge in this
\* step; MergeCall(t) is the call after the step.
CallsMerge(t) ==
  t.pc = "stopping" /\ \E u \in tasks' : u.id = t.id /\ u.pc = "merging"
MergeCall(t) == CHOOSE u \in tasks' : u.id = t.id

\* C31: the frames passed to the merge of a segment are the frames that were
\* in the pre-recording buffer when onVoiceStart fired for it.
PreRollIsVoiceStartSnapshot ==
  [][\A t \in tasks : CallsMerge(t) => MergeCall(t).preRoll = t.snapshot]_vars

\* A worklet frame is delivered in this step while no voice is active.
FrameOffered == frameCount' = frameCount + 1 /\ ~isVoiceActiveRef

\* C32: a frame delivered while no voice is active is appended as the newest
\* frame; the frames kept are the ones before it in their order, less at most
\* the single oldest one.
EvictionIsFifo ==
  [][FrameOffered =>
       LET old == PRE_RECORDING_BUFFER[audioContextRef]
           new == PRE_RECORDING_BUFFER'[audioContextRef]
       IN /\ new # <<>> /\ new[Len(new)] = frameCount + 1
          /\ \/ new = Append(old, frameCount + 1)
             \/ old # <<>> /\ new = Append(Tail(old), frameCount + 1)]_vars

\* The oldest frames have been evicted: the buffer no longer starts at the
\* first frame and ends at the newest.
OldestFramesEvicted ==
  LET buf == PRE_RECORDING_BUFFER[1]
  IN /\ frameCount = MaxLowRateFrames
     /\ buf # <<>> /\ buf[1] > 2 /\ buf[Len(buf)] = frameCount
     /\ \A n \in 1..(Len(buf) - 1) : buf[n + 1] = buf[n] + 1

\* onVoiceStart fires in this step.
VoiceStarts == voiceCount' = voiceCount + 1

\* C33: a voice start with a recorder present captures the start time, sets
\* the voice-active flag and leaves the recorder recording; and while the
\* flag stays set and the session is not being stopped (its VAD stays in
\* place) no step stops or resets that recorder.
RecorderRunsWhileVoiceActive ==
  [][/\ VoiceStarts /\ recorderRef # 0 =>
          /\ voiceStartTimeRef' = 0 /\ isVoiceActiveRef'
          /\ recorderState' = "recording"
     /\ /\ isVoiceActiveRef /\ isVoiceActiveRef'
        /\ recorderRef # 0 /\ recorderRef' = recorderRef
        /\ vadRef # 0 /\ vadRef' = vadRef
        /\ recorderState = "recording"
        => recorderState' = "recording"]_vars

\* The first session is listening and was never torn down, every send made
\* so far was acknowledged with success without a timeout, and nothing is
\* left to run: no onVoiceStop call is suspended and no send is pending.
QuietAfterSuccess ==
  /\ session = 1 /\ isListening
  /\ sends # <<>> /\ \A i \in DOMAIN sends : sends[i].st = "acked"
  /\ failedChunks = {} /\ remoteFailed = {}
  /\ tasks = {}

\* C34: when every send is acknowledged with success and the session is not
\* torn down, the queue and the pending map are drained: once nothing is left
\* to run, both are empty and every chunk enqueued was sent.
DrainedAfterSuccess ==
  QuietAfterSuccess =>
    /\ audioQueueRef = <<>>
    /\ pendingTranscriptionsRef = EmptyMap
    /\ \A id \in 0..(sequenceCounterRef - 1) : id \in SentIds

\* The acknowledgement callback of send i runs after the 5000 ms timer of
\* the send has already rejected its promise.
LateAcknowledgement(i) ==
  /\ sends[i].st = "timedout"
  /\ i \in DOMAIN sends' /\ sends'[i].st # "timedout"

\* C35: an acknowledgement that arrives after its send timed out has no
\* effect: it adds nothing to the pending map, emits no transcription and
\* does not change the queue.
LateAcknowledgementIgnored ==
  [][\A i \in DOMAIN sends : LateAcknowledgement(i) =>
       /\ pendingTranscriptionsRef' = pendingTranscriptionsRef
       /\ nextExpectedSequenceRef' = nextExpectedSequenceRef
       /\ transcriptions' = transcriptions
       /\ audioQueueRef' = audioQueueRef]_vars

\* C36: every key of the pending-results map is at least the next expected
\* sequence id: no entry for a released id is stored or left behind.
PendingKeysNotReleased ==
  \A k \in DOMAIN pendingTranscriptionsRef : k >= nextExpectedSequenceRef

\* C37: each sequence id has at most one transcription in the output list,
\* however often its result is delivered.
OneTranscriptionPerId ==
  \A i, j \in DOMAIN transcriptions :
    transcriptions[i] = transcriptions[j] => i = j

\* C37 witness: a result with text was delivered again for an id whose
\* transcription is already in the output list, and was not emitted.
DuplicateResultNotEmitted ==
  \E k \in DOMAIN pendingTranscriptionsRef :
    /\ pendingTranscriptionsRef[k]
    /\ k \in Ids(transcriptions)
    /\ Len(transcriptions) = 1

\* A step in which socket.emit('audioDataPartial', ...) is called.
SendStep == Len(sends') > Len(sends)

\* C38: no chunk is enqueued and no 'audioDataPartial' is sent while
\* isListening is false.
CaptureOnlyWhileListening ==
  [][EnqueueStep \/ SendStep => isListening]_vars

====
